---- MODULE Spec2Model ----
(***************************************************************************)
(* Financial metric derivation and classification of the stock-analysis    *)
(* dashboard: the value accessor (safe_val), the metric formulas           *)
(* (compute_growth_1y, compute_cagr_3y, compute_margin,                    *)
(* compute_interest_coverage), the threshold classifier (classify_metric)  *)
(* and the three statement table builders; the provider access of          *)
(* data_fetcher, the financials and analysis tabs, and a browser session   *)
(* running main.py and the overview and valuation tabs over                *)
(* st.session_state.                                                       *)
(*                                                                         *)
(* Numbers are exact: a Python float is modelled by the rational it        *)
(* denotes, [k |-> "num", n, d] in lowest terms with d > 0, and the cube   *)
(* root taken by compute_cagr_3y by the exact algebraic number             *)
(* [k |-> "root", n, d, e] = ((n/d)^(1/e) - 1) * 100.  Floating-point      *)
(* rounding, infinities and overflow are not modelled.  Python's None is   *)
(* [k |-> "none"]; a raised exception is [k |-> "raise", exc |-> name].    *)
(***************************************************************************)
EXTENDS Integers, Sequences, FiniteSets, TLC

VARIABLES
    call,       \* the last call of a formula, the classifier or the accessor
    fn,         \* the table builder under call
    df,         \* its statement argument (balance_df, income_df or cashflow_df)
    income_df,  \* its second argument, the income statement (balance, cashflow)
    edits,      \* cells of the fixture rows the provider has overwritten
    pc,         \* "args": arguments being prepared; "done": the builder returned;
                \* "again": it was called once more on the same arguments
    out,        \* what the last builder call produced
    analysis_thresholds,  \* the module-level dict ANALYSIS_THRESHOLDS
    session_state,  \* st.session_state of the browser session
    page        \* what the last run of main.py or of a tab did

vars == <<call, fn, df, income_df, edits, pc, out, analysis_thresholds,
          session_state, page>>

(***************************************************************************)
(* Bounds of the model.                                                    *)
(***************************************************************************)
\* operands of the formulas are the multiples of 1/2 in -MaxNum/2 .. MaxNum/2
MaxNum == 6
\* a statement has 0 .. MaxCols period columns
MaxCols == 5
\* rows a statement is given
MaxRows == 2
\* cells of a builder's statements overwritten with NaN or 0
MaxEdits == 1

(***************************************************************************)
(* Exact arithmetic.                                                       *)
(***************************************************************************)
Abs(i) == IF i < 0 THEN -i ELSE i

RECURSIVE Gcd(_, _)
Gcd(a, b) == IF b = 0 THEN a ELSE Gcd(b, a % b)

\* the rational n/d (d # 0) in lowest terms
Rat(n, d) ==
    LET g == Gcd(Abs(n), Abs(d))
        s == IF d < 0 THEN -1 ELSE 1
    IN  [k |-> "num", n |-> (s * n) \div g, d |-> (s * d) \div g]

Num(i) == Rat(i, 1)

None == [k |-> "none"]

Raise(e) == [k |-> "raise", exc |-> e]

IsNum(v) == v.k = "num"

RAdd(a, b) == Rat(a.n * b.d + b.n * a.d, a.d * b.d)

RSub(a, b) == Rat(a.n * b.d - b.n * a.d, a.d * b.d)

RMul(a, b) == Rat(a.n * b.n, a.d * b.d)

\* a / b for b # 0
RDiv(a, b) == Rat(a.n * b.d, a.d * b.n)

\* abs(a)
RAbs(a) == Rat(Abs(a.n), a.d)

RLe(a, b) == a.n * b.d <= b.n * a.d

RLt(a, b) == a.n * b.d < b.n * a.d

RECURSIVE IPow(_, _)
IPow(b, e) == IF e = 0 THEN 1 ELSE b * IPow(b, e - 1)

RPow(a, e) == Rat(IPow(a.n, e), IPow(a.d, e))

\* the largest r >= from with r^e <= m
RECURSIVE IRootFrom(_, _, _)
IRootFrom(m, e, from) ==
    IF IPow(from + 1, e) > m THEN from ELSE IRootFrom(m, e, from + 1)

IRoot(m, e) == IRootFrom(m, e, 0)

IsPower(m, e) == IPow(IRoot(m, e), e) = m

(***************************************************************************)
(* Python values.                                                          *)
(***************************************************************************)
\* x == 0 for a number x
IsZero(v) == IsNum(v) /\ v.n = 0

\* bool(x): None and 0 are false, every other number is true
Truthy(v) == v # None /\ ~IsZero(v)

\* (ratio ** (1.0 / e) - 1.0) * 100.0: the real root of a ratio >= 0; a negative
\* base with a fractional exponent yields a complex number in Python 3
PowMinus1Pct(ratio, e) ==
    IF ratio.n < 0 THEN [k |-> "complex"]
    ELSE IF IsPower(ratio.n, e) /\ IsPower(ratio.d, e)
         THEN RMul(RSub(Rat(IRoot(ratio.n, e), IRoot(ratio.d, e)), Num(1)), Num(100))
         ELSE [k |-> "root", n |-> ratio.n, d |-> ratio.d, e |-> e]

\* value >= t and value <= t for a number or a root value and a number t;
\* ((r)^(1/e) - 1) * 100 >= t  iff  r^(1/e) >= c, with c = 1 + t/100
Cut(t) == RAdd(Num(1), RDiv(t, Num(100)))

VGe(v, t) ==
    IF IsNum(v) THEN RLe(t, v)
    ELSE Cut(t).n <= 0 \/ RLe(RPow(Cut(t), v.e), Rat(v.n, v.d))

VLe(v, t) ==
    IF IsNum(v) THEN RLe(v, t)
    ELSE Cut(t).n >= 0 /\ RLe(Rat(v.n, v.d), RPow(Cut(t), v.e))

(***************************************************************************)
(* finance/analysis_formulas.py                                            *)
(***************************************************************************)
\* divides by value_prev instead of abs(value_prev)
compute_growth_1y_signed(value_now, value_prev) ==
    IF value_now = None \/ value_prev = None \/ IsZero(value_prev) THEN None
    ELSE RMul(RDiv(RSub(value_now, value_prev), value_prev), Num(100))

compute_growth_1y(value_now, value_prev) ==
    IF value_now = None \/ value_prev = None \/ IsZero(value_prev) THEN None
    ELSE RMul(RDiv(RSub(value_now, value_prev), RAbs(value_prev)), Num(100))

\* takes value_now without abs
compute_cagr_3y_signed_now(value_now, value_3yr) ==
    IF value_now = None \/ value_3yr = None \/ IsZero(value_3yr) THEN None
    ELSE PowMinus1Pct(RDiv(value_now, RAbs(value_3yr)), 3)

\* takes value_3yr without abs
compute_cagr_3y_signed_past(value_now, value_3yr) ==
    IF value_now = None \/ value_3yr = None \/ IsZero(value_3yr) THEN None
    ELSE PowMinus1Pct(RDiv(RAbs(value_now), value_3yr), 3)

compute_cagr_3y(value_now, value_3yr) ==
    IF value_now = None \/ value_3yr = None \/ IsZero(value_3yr) THEN None
    ELSE PowMinus1Pct(RDiv(RAbs(value_now), RAbs(value_3yr)), 3)

\* tests the operands for truth, as "if numerator and denominator" would
compute_margin_truthy(value_numerator, value_denominator) ==
    IF ~Truthy(value_numerator) \/ ~Truthy(value_denominator) THEN None
    ELSE RMul(RDiv(value_numerator, RAbs(value_denominator)), Num(100))

compute_margin(value_numerator, value_denominator) ==
    IF value_numerator = None \/ value_denominator = None \/ IsZero(value_denominator)
    THEN None
    ELSE RMul(RDiv(value_numerator, RAbs(value_denominator)), Num(100))

\* a coverage scaled to a percentage like a margin
compute_interest_coverage_pct(ebit, interest_expense) ==
    compute_margin(ebit, interest_expense)

compute_interest_coverage(ebit, interest_expense) ==
    IF ebit = None \/ interest_expense = None \/ IsZero(interest_expense) THEN None
    ELSE RDiv(ebit, RAbs(interest_expense))

\* never reads the "inverted" key
Inverted_ignored(thresholds) == FALSE

\* thresholds.get("inverted", False)
Inverted(thresholds) ==
    IF "inverted" \in DOMAIN thresholds THEN thresholds.inverted ELSE FALSE

\* compares with > and < where the code has >= and <=
classify_metric_strict(value, thresholds) ==
    IF value = None THEN "gray"
    ELSE IF thresholds = None THEN "AttributeError"
    ELSE IF value.k = "complex" THEN "TypeError"
    ELSE IF ~Inverted(thresholds)
         THEN IF ~VLe(value, thresholds.excellent) THEN "green"
              ELSE IF ~VLe(value, thresholds.good) THEN "yellow"
              ELSE "red"
         ELSE IF ~VGe(value, thresholds.excellent) THEN "green"
              ELSE IF ~VGe(value, thresholds.good) THEN "yellow"
              ELSE "red"

\* The colour, or the name of the exception raised: thresholds.get on None is an
\* AttributeError, and a complex value cannot be ordered (TypeError).
classify_metric(value, thresholds) ==
    IF value = None THEN "gray"
    ELSE IF thresholds = None THEN "AttributeError"
    ELSE IF value.k = "complex" THEN "TypeError"
    ELSE IF ~Inverted(thresholds)
         THEN IF VGe(value, thresholds.excellent) THEN "green"
              ELSE IF VGe(value, thresholds.good) THEN "yellow"
              ELSE "red"
         ELSE IF VLe(value, thresholds.excellent) THEN "green"
              ELSE IF VLe(value, thresholds.good) THEN "yellow"
              ELSE "red"

(***************************************************************************)
(* finance/config/analysis_config.py.  Currency amounts, in the statements *)
(* and in the "Revenue" cutoffs (10_000_000_000 and 500_000_000), are in   *)
(* millions; ratios and percentages are unscaled.                          *)
(***************************************************************************)
Th(excellent, good) == [excellent |-> Num(excellent), good |-> Num(good)]

ThInv(excellent, good) ==
    [excellent |-> Num(excellent), good |-> Num(good), inverted |-> TRUE]

ANALYSIS_THRESHOLDS ==
    [Revenue |-> Th(10000, 500),
     RevenueGrowth |-> Th(15, 5),
     GrossProfit |-> None,
     GrossProfitGrowth |-> None,
     GrossProfitMargin |-> Th(25, 15),
     GrossProfitMarginGrowth |-> None,
     EBIT |-> None,
     EBITGrowth |-> None,
     EBITMargin |-> Th(15, 6),
     EBITMarginGrowth |-> None,
     InterestCoverage |-> Th(20, 5),
     InterestCoverageGrowth |-> None,
     NetIncome |-> None,
     NetIncomeGrowth |-> None,
     NetIncomeMargin |-> Th(20, 5),
     NetIncomeMarginGrowth |-> None,
     RDtoRevenueRatio |-> ThInv(7, 20),
     RDtoRevenueRatioGrowth |-> None,
     PersonnelExpense |-> ThInv(30, 50),
     PersonnelExpenseGrowth |-> None,
     CurrentAssets |-> None,
     CurrentAssetsGrowth |-> None,
     TotalAssets |-> None,
     TotalAssetsGrowth |-> None,
     CurrentLiabilities |-> None,
     CurrentLiabilitiesGrowth |-> None,
     TotalLiabilities |-> None,
     TotalLiabilitiesGrowth |-> None,
     WorkingCapital |-> None,
     WorkingCapitalGrowth |-> None,
     CurrentRatio |-> Th(3, 1),
     CurrentRatioGrowth |-> None,
     Equity |-> None,
     EquityGrowth |-> None,
     ReturnOnEquity |-> Th(15, 8),
     ReturnOnEquityGrowth |-> None,
     EquityRatio |-> Th(70, 30),
     EquityRatioGrowth |-> None,
     DebtRatio |-> ThInv(20, 40),
     DebtRatioGrowth |-> None,
     Dividends |-> None,
     DividendsGrowth |-> None,
     DividendsToShare |-> Th(5, 2),
     DividendsToShareGrowth |-> None,
     OperatingCashFlow |-> None,
     OperatingCashFlowGrowth |-> None,
     OperatingCashFlowMargin |-> Th(15, 5),
     OperatingCashFlowMarginGrowth |-> None]

(***************************************************************************)
(* Statements: a pandas DataFrame with ncols period columns, newest first, *)
(* labelled 1 .. ncols (the column at Python index i has label i + 1), and *)
(* rows keyed by line-item name.  A cell holds a number, NaN (any value    *)
(* pd.isna accepts) or text that float() rejects.                          *)
(***************************************************************************)
NaN == [k |-> "nan"]

Text == [k |-> "str"]

\* the column reference None (period out of range)
NoCol == 0

\* list(df.columns)[i], for 0 <= i < len(df.columns)
ColAt(d, i) == i + 1

\* df.empty: an axis of length 0
IsEmpty(d) == d.ncols = 0 \/ DOMAIN d.rows = {}

(***************************************************************************)
(* finance/analysis/analysis_utils.py                                      *)
(***************************************************************************)
\* returns float(val) without the pd.isna test
safe_val_no_isna(d, row_label, col_label) ==
    IF d = None THEN None
    ELSE IF IsEmpty(d) THEN None
    ELSE IF row_label \notin DOMAIN d.rows \/ col_label \notin 1..d.ncols THEN None
    ELSE LET val == d.rows[row_label][col_label]
         IN  IF val = Text THEN None ELSE val

\* df.loc raises KeyError for an unknown row or column label and float() raises
\* ValueError for text; the bare except turns both into None.
safe_val(d, row_label, col_label) ==
    IF d = None THEN None
    ELSE IF IsEmpty(d) THEN None
    ELSE IF row_label \notin DOMAIN d.rows \/ col_label \notin 1..d.ncols THEN None
    ELSE LET val == d.rows[row_label][col_label]
         IN  IF val = NaN THEN None
             ELSE IF val = Text THEN None
             ELSE val

\* the names that contain '€', '$' and '%': the Metric names of the builders,
\* the hint "%" the display passes for the growth columns, and further hints
EuroNames ==
    {"Current Assets (€)", "Total Assets (€)", "Current Liabilities (€)",
     "Total Liabilities (€)", "Working Capital (€)", "Equity (€)",
     "Operating Cashflow (€)", "Payout (€, %)"}

DollarNames ==
    {"Revenue ($)", "Gross-Profit ($)", "EBIT ($)", "Net Income ($)", "Yield ($, %)"}

PercentNames ==
    {"Gross-Profit-Margin (%)", "EBIT Margin (%)", "Net Income Margin (%)",
     "R&D to Revenue Ratio (%)", "Personell Expense (%)", "Return on Equity (%)",
     "Equity Ratio (%)", "Dept Ratio (Gearing) (%)", "Operating Cashflow Margin (%)",
     "%", "Payout (€, %)", "Yield ($, %)"}

\* marker in metric_name
Contains(marker, metric_name) ==
    CASE marker = "€" -> metric_name \in EuroNames
      [] marker = "$" -> metric_name \in DollarNames
      [] marker = "%" -> metric_name \in PercentNames

\* a formatted string
Str(s) == [s |-> s]

\* the two decimals of a value whose digits the exact arithmetic does not
\* determine (a cube root; a decimal tie of a value that is no binary fraction)
Fixed2Of(value, suffix) == [fixed2 |-> value, suffix |-> suffix]

Pad2(i) == IF i < 10 THEN "0" \o ToString(i) ELSE ToString(i)

Pad3(i) == IF i < 100 THEN "0" \o Pad2(i) ELSE ToString(i)

\* the digits of i >= 0 in groups of three
RECURSIVE Grouped(_)
Grouped(i) ==
    IF i < 1000 THEN ToString(i) ELSE Grouped(i \div 1000) \o "," \o Pad3(i % 1000)

\* f"{i:,}"
IntComma(i) == IF i < 0 THEN "-" \o Grouped(-i) ELSE Grouped(i)

\* int(value): the fraction is cut off, towards zero
IntOf(value) ==
    IF value.n >= 0 THEN value.n \div value.d ELSE -((-value.n) \div value.d)

\* round(value): the nearest integer, a tie to the even one
RoundOf(value) ==
    LET fl == value.n \div value.d
        twice == 2 * (value.n % value.d)
    IN  IF twice > value.d \/ (twice = value.d /\ fl % 2 = 1) THEN fl + 1 ELSE fl

\* value * 100 lies exactly between two integers
IsTie2(value) == 2 * ((Abs(value.n) * 100) % value.d) = value.d

\* f"{value:.2f}" for a number: the nearest hundredth, a tie to the even one,
\* with the sign of the value
Fixed2(value) ==
    LET q == RoundOf(RMul(RAbs(value), Num(100)))
    IN  (IF value.n < 0 THEN "-" ELSE "") \o ToString(q \div 100) \o "." \o Pad2(q % 100)

\* f"{value:.2f}" followed by suffix
Fixed2Str(value, suffix) ==
    IF IsNum(value) /\ (~IsTie2(value) \/ value.d = 8)
    THEN Str(Fixed2(value) \o suffix)
    ELSE Fixed2Of(value, suffix)

\* f"{int(value):,}" followed by suffix
IntStr(value, suffix) ==
    IF IsNum(value) THEN Str(IntComma(IntOf(value)) \o suffix)
    ELSE [int |-> value, suffix |-> suffix]

\* tests '%' before the currency markers
format_cell_percent_first(value, metric_name) ==
    IF value = None \/ value = NaN THEN Str("n/a")
    ELSE IF Contains("%", metric_name) THEN Fixed2Str(value, "%")
    ELSE IF Contains("€", metric_name) THEN IntStr(value, "€")
    ELSE IF Contains("$", metric_name) THEN IntStr(value, "$")
    ELSE Fixed2Str(value, "")

format_cell(value, metric_name) ==
    IF value = None \/ value = NaN THEN Str("n/a")
    ELSE IF Contains("€", metric_name) THEN IntStr(value, "€")
    ELSE IF Contains("$", metric_name) THEN IntStr(value, "$")
    ELSE IF Contains("%", metric_name) THEN Fixed2Str(value, "%")
    ELSE Fixed2Str(value, "")

(***************************************************************************)
(* finance/analysis/analysis_tables: the three table builders.  A builder  *)
(* returns [status |-> "warning"] (fewer than 2 columns),                  *)
(* [status |-> "raised", exc |-> name] or [status |-> "ok", rows |-> ...,  *)
(* display |-> ...], the rows in the order the builder appends them and    *)
(* the formatted table it shows.                                           *)
(***************************************************************************)
Exceptions == {"AttributeError", "TypeError", "KeyError", "IndexError"}

\* classify_metric(value, ANALYSIS_THRESHOLDS[key])
Classify(value, key) ==
    IF key \notin DOMAIN analysis_thresholds THEN "KeyError"
    ELSE classify_metric(value, analysis_thresholds[key])

\* rows.append({...}) once the three classifications are computed; the first
\* classification that raises ends the builder
Row(metric, latest, g1, g3, color, color_1y, color_3y) ==
    IF color \in Exceptions THEN Raise(color)
    ELSE IF color_1y \in Exceptions THEN Raise(color_1y)
    ELSE IF color_3y \in Exceptions THEN Raise(color_3y)
    ELSE [Metric |-> metric, LatestValue |-> latest, Growth1Y |-> g1, Cagr3Y |-> g3,
          Color |-> color, Color1Y |-> color_1y, Color3Y |-> color_3y]

\* cols[0]
latest_col(d) == ColAt(d, 0)

\* cols[1] if len(cols) >= 2 else None
col_1y(d) == IF d.ncols >= 2 THEN ColAt(d, 1) ELSE NoCol

\* reads index 2 where the code reads index 3
col_3y_index2(d) == IF d.ncols >= 4 THEN ColAt(d, 2) ELSE NoCol

\* falls back to the oldest column of a 3-column statement
col_3y_oldest(d) ==
    IF d.ncols >= 4 THEN ColAt(d, 3) ELSE IF d.ncols = 3 THEN ColAt(d, 2) ELSE NoCol

\* reads the column after index 3 when the statement has one
col_3y_index4(d) ==
    IF d.ncols >= 5 THEN ColAt(d, 4) ELSE IF d.ncols = 4 THEN ColAt(d, 3) ELSE NoCol

\* cols[3] if len(cols) >= 4 else None
col_3y(d) == IF d.ncols >= 4 THEN ColAt(d, 3) ELSE NoCol

\* get_growth_metrics(row_label): (latest value, 1-year growth, 3-year CAGR)
get_growth_metrics(d, row_label) ==
    LET val_now == safe_val(d, row_label, latest_col(d))
        val_1y  == safe_val(d, row_label, col_1y(d))
        val_3y  == safe_val(d, row_label, col_3y(d))
    IN  <<val_now, compute_growth_1y(val_now, val_1y), compute_cagr_3y(val_now, val_3y)>>

\* calc_growth_metrics(val_now, val_1, val_3)
calc_growth_metrics(val_now, val_1, val_3) ==
    <<val_now, compute_growth_1y(val_now, val_1), compute_cagr_3y(val_now, val_3)>>

\* a metric looked up by row label: the value and both growth figures are
\* classified, the growth figures against growth_key
DirectRow(d, metric, row_label, key, growth_key) ==
    LET m == get_growth_metrics(d, row_label)
    IN  Row(metric, m[1], m[2], m[3],
            Classify(m[1], key), Classify(m[2], growth_key), Classify(m[3], growth_key))

\* get_all_metrics(row_label) of the income builder: the values of columns
\* 0, 1, 2 and 3
get_all_metrics(d, row_label) ==
    <<safe_val(d, row_label, ColAt(d, 0)),
      safe_val(d, row_label, ColAt(d, 1)),
      IF d.ncols > 2 THEN safe_val(d, row_label, ColAt(d, 2)) ELSE None,
      IF d.ncols > 3 THEN safe_val(d, row_label, ColAt(d, 3)) ELSE None>>

\* compute_margin of two line items at columns 0, 1 and 3
Margins(d, num_label, den_label) ==
    LET num == get_all_metrics(d, num_label)
        den == get_all_metrics(d, den_label)
    IN  <<compute_margin(num[1], den[1]), compute_margin(num[2], den[2]),
          compute_margin(num[4], den[4])>>

\* compute_interest_coverage of two line items at columns 0, 1 and 3
Coverages(d, num_label, den_label) ==
    LET num == get_all_metrics(d, num_label)
        den == get_all_metrics(d, den_label)
    IN  <<compute_interest_coverage(num[1], den[1]),
          compute_interest_coverage(num[2], den[2]),
          compute_interest_coverage(num[4], den[4])>>

\* a ratio row whose "Color 1Y" and "Color 3Y" classify the ratio one and three
\* periods back (the margin and coverage rows of the income builder, Current
\* Ratio and Equity Ratio of the balance builder); r is the ratio now, one and
\* three periods back
RatioRowPrior(metric, r, key, growth_key) ==
    LET g == calc_growth_metrics(r[1], r[2], r[3])
    IN  Row(metric, r[1], g[2], g[3],
            Classify(r[1], key), Classify(r[2], growth_key), Classify(r[3], growth_key))

\* the rows of build_income_analysis_table, each a row or a raised exception
IncomeRows(d) ==
    <<DirectRow(d, "Revenue ($)", "Total Revenue", "Revenue", "RevenueGrowth"),
      DirectRow(d, "Gross-Profit ($)", "Gross Profit", "GrossProfit", "GrossProfitGrowth"),
      RatioRowPrior("Gross-Profit-Margin (%)",
                    Margins(d, "Gross Profit", "Total Revenue"),
                    "GrossProfitMargin", "GrossProfitMarginGrowth"),
      DirectRow(d, "EBIT ($)", "EBIT", "EBIT", "EBITGrowth"),
      RatioRowPrior("EBIT Margin (%)",
                    Margins(d, "EBIT", "Total Revenue"),
                    "EBITMargin", "EBITMarginGrowth"),
      RatioRowPrior("Interest coverage ratio (#)",
                    Coverages(d, "EBIT", "Interest Expense"),
                    "InterestCoverage", "InterestCoverageGrowth"),
      DirectRow(d, "Net Income ($)", "Net Income", "NetIncome", "NetIncomeGrowth"),
      RatioRowPrior("Net Income Margin (%)",
                    Margins(d, "Net Income", "Total Revenue"),
                    "NetIncomeMargin", "NetIncomeMarginGrowth"),
      RatioRowPrior("R&D to Revenue Ratio (%)",
                    Margins(d, "Research And Development", "Total Revenue"),
                    "RDtoRevenueRatio", "RDtoRevenueRatioGrowth"),
      RatioRowPrior("Personell Expense (%)",
                    Margins(d, "Selling General And Administration", "Total Revenue"),
                    "PersonnelExpense", "PersonnelExpenseGrowth")>>

\* the values of a line item at columns 0, 1 and 3 as the ratio blocks of the
\* balance and cash-flow builders read them
ValuesAt(d, row_label) ==
    <<safe_val(d, row_label, ColAt(d, 0)),
      IF d.ncols > 1 THEN safe_val(d, row_label, ColAt(d, 1)) ELSE None,
      IF d.ncols > 3 THEN safe_val(d, row_label, ColAt(d, 3)) ELSE None>>

\* (a / abs(b)) if (a and b and b != 0) else None, at columns 0, 1 and 3
TruthyRatio(a, b) ==
    IF Truthy(a) /\ Truthy(b) /\ ~IsZero(b) THEN RDiv(a, RAbs(b)) ELSE None

TruthyRatios(d, num_label, den_label) ==
    LET num == ValuesAt(d, num_label)
        den == ValuesAt(d, den_label)
    IN  <<TruthyRatio(num[1], den[1]), TruthyRatio(num[2], den[2]),
          TruthyRatio(num[3], den[3])>>

\* (a / abs(b)) * 100 if (a and b and b != 0) else None, at columns 0, 1 and 3
TruthyPct(a, b) ==
    IF Truthy(a) /\ Truthy(b) /\ ~IsZero(b) THEN RMul(RDiv(a, RAbs(b)), Num(100))
    ELSE None

TruthyPcts(d, num_label, den_label) ==
    LET num == ValuesAt(d, num_label)
        den == ValuesAt(d, den_label)
    IN  <<TruthyPct(num[1], den[1]), TruthyPct(num[2], den[2]),
          TruthyPct(num[3], den[3])>>

\* (a / abs(b)) * 100.0 if b and b != 0 and a is not None, else None, at
\* columns 0, 1 and 3; the numerator is read from statement dn and the
\* denominator from statement dd
PctOfTruthy(a, b) ==
    IF Truthy(b) /\ ~IsZero(b) /\ a # None THEN RMul(RDiv(a, RAbs(b)), Num(100))
    ELSE None

PctsOfTruthy(dn, dd, num_label, den_label) ==
    LET num == ValuesAt(dn, num_label)
        den == ValuesAt(dd, den_label)
    IN  <<PctOfTruthy(num[1], den[1]), PctOfTruthy(num[2], den[2]),
          PctOfTruthy(num[3], den[3])>>

\* a ratio row whose "Color 1Y" and "Color 3Y" classify the growth figures
\* (Return on Equity, Debt Ratio, Operating Cashflow Margin)
RatioRowGrowth(metric, r, key, growth_key) ==
    LET g == calc_growth_metrics(r[1], r[2], r[3])
    IN  Row(metric, r[1], g[2], g[3],
            Classify(r[1], key), Classify(g[2], growth_key), Classify(g[3], growth_key))

\* inc_cols[0] of an income statement without columns is an IndexError
NeedsIncomeColumn(inc, row) == IF inc.ncols = 0 THEN Raise("IndexError") ELSE row

\* the rows of build_balance_analysis_table
BalanceRows(d, inc) ==
    <<DirectRow(d, "Current Assets (€)", "Current Assets", "CurrentAssets",
                "CurrentAssetsGrowth"),
      DirectRow(d, "Total Assets (€)", "Total Assets", "TotalAssets", "TotalAssetsGrowth"),
      DirectRow(d, "Current Liabilities (€)", "Current Liabilities", "CurrentLiabilities",
                "CurrentLiabilitiesGrowth"),
      DirectRow(d, "Total Liabilities (€)", "Total Liabilities Net Minority Interest",
                "TotalLiabilities", "TotalLiabilitiesGrowth"),
      DirectRow(d, "Working Capital (€)", "Working Capital", "WorkingCapital",
                "WorkingCapitalGrowth"),
      RatioRowPrior("Current Ratio (#)",
                    TruthyRatios(d, "Current Assets", "Current Liabilities"),
                    "CurrentRatio", "CurrentRatioGrowth"),
      DirectRow(d, "Equity (€)", "Common Stock Equity", "Equity", "EquityGrowth"),
      NeedsIncomeColumn(inc,
          RatioRowGrowth("Return on Equity (%)",
                         PctsOfTruthy(inc, d, "Net Income", "Common Stock Equity"),
                         "ReturnOnEquity", "ReturnOnEquityGrowth")),
      RatioRowPrior("Equity Ratio (%)",
                    TruthyPcts(d, "Common Stock Equity", "Total Assets"),
                    "EquityRatio", "EquityRatioGrowth"),
      RatioRowGrowth("Dept Ratio (Gearing) (%)",
                     TruthyPcts(d, "Total Liabilities Net Minority Interest",
                                "Common Stock Equity"),
                     "DebtRatio", "DebtRatioGrowth")>>

\* the rows of build_cashflow_analysis_table
CashflowRows(d, inc) ==
    <<DirectRow(d, "Operating Cashflow (€)", "Operating Cash Flow", "OperatingCashFlow",
                "OperatingCashFlowGrowth"),
      NeedsIncomeColumn(inc,
          RatioRowGrowth("Operating Cashflow Margin (%)",
                         PctsOfTruthy(d, inc, "Operating Cash Flow", "Total Revenue"),
                         "OperatingCashFlowMargin", "OperatingCashFlowMarginGrowth"))>>

\* pd.DataFrame(rows): a None in a column that holds a number becomes NaN
FrameValue(v, column) ==
    IF v = None /\ (\E j \in 1..Len(column) : column[j] # None) THEN NaN ELSE v

\* _display_analysis_table(df_analysis): the formatted rows handed to st.table;
\* the growth columns are formatted with the hint "%"
display_analysis_table(rows) ==
    LET latest == [i \in 1..Len(rows) |-> rows[i].LatestValue]
        g1 == [i \in 1..Len(rows) |-> rows[i].Growth1Y]
        g3 == [i \in 1..Len(rows) |-> rows[i].Cagr3Y]
    IN  [i \in 1..Len(rows) |->
            [Metric |-> rows[i].Metric,
             LatestValue |-> format_cell(FrameValue(latest[i], latest), rows[i].Metric),
             Growth1Y |-> format_cell(FrameValue(g1[i], g1), "%"),
             Cagr3Y |-> format_cell(FrameValue(g3[i], g3), "%"),
             Color |-> rows[i].Color,
             Color1Y |-> rows[i].Color1Y,
             Color3Y |-> rows[i].Color3Y]]

\* the statements of a builder run in order: the first row that raises ends
\* the call, otherwise the rows are displayed and returned
RunRows(rows) ==
    LET raised == {i \in 1..Len(rows) : "exc" \in DOMAIN rows[i]}
    IN  IF raised = {}
        THEN [status |-> "ok", rows |-> rows, display |-> display_analysis_table(rows)]
        ELSE LET first == CHOOSE i \in raised : \A j \in raised : i <= j
             IN  [status |-> "raised", exc |-> rows[first].exc]

\* returns an empty table in place of the warning
Warning_empty_table == [status |-> "ok", rows |-> <<>>, display |-> <<>>]

\* st.warning("Not enough data columns ..."); return
Warning == [status |-> "warning"]

build_income_analysis_table(d) ==
    IF d.ncols < 2 THEN Warning ELSE RunRows(IncomeRows(d))

build_balance_analysis_table(d, inc) ==
    IF d.ncols < 2 THEN Warning ELSE RunRows(BalanceRows(d, inc))

build_cashflow_analysis_table(d, inc) ==
    IF d.ncols < 2 THEN Warning ELSE RunRows(CashflowRows(d, inc))

(***************************************************************************)
(* finance/data_fetcher.py.  The provider's Ticker object is the record of *)
(* what each of its members does when it is touched: the three statement   *)
(* properties and get_info() return a value or raise; fast_info raises or  *)
(* returns an object whose attributes hold a value, are missing, or raise  *)
(* when they are read.                                                     *)
(***************************************************************************)
\* a Python dict with the given items
Dict(items) == [k |-> "dict", items |-> items]

\* an attribute the object does not have
Missing == [k |-> "missing"]

IsRaise(v) == "exc" \in DOMAIN v

\* getattr(fast, name, default)
GetAttr(fast, name, default) == IF fast[name] = Missing THEN default ELSE fast[name]

\* the dict built in the fallback of fetch_financial_statements; reading an
\* attribute that raises ends the construction
FastInfoDict(ticker, fast) ==
    IF IsRaise(fast) \/ IsRaise(fast.last_price) \/ IsRaise(fast.market_cap)
    THEN Raise("Exception")
    ELSE Dict([symbol |-> Str(ticker),
               currentPrice |-> GetAttr(fast, "last_price", None),
               marketCap |-> GetAttr(fast, "market_cap", None)])

\* the dict built in the fallback of get_stock_info_safe
FastInfoDictCurrency(ticker, fast) ==
    IF IsRaise(fast) \/ IsRaise(fast.last_price) \/ IsRaise(fast.market_cap)
          \/ IsRaise(fast.currency)
    THEN Raise("Exception")
    ELSE Dict([symbol |-> Str(ticker),
               currentPrice |-> GetAttr(fast, "last_price", None),
               marketCap |-> GetAttr(fast, "market_cap", None),
               currency |-> GetAttr(fast, "currency", Str("USD"))])

\* try: ... except: info = {'symbol': ticker}
SymbolOnly(ticker, info) == IF IsRaise(info) THEN Dict([symbol |-> Str(ticker)]) ELSE info

\* does not replace a failure of fast_info by {'symbol': ticker}
fetch_financial_statements_no_inner_try(ticker, stock) ==
    IF IsRaise(stock.balance_sheet) THEN stock.balance_sheet
    ELSE IF IsRaise(stock.financials) THEN stock.financials
    ELSE IF IsRaise(stock.cashflow) THEN stock.cashflow
    ELSE LET info == IF IsRaise(stock.get_info)
                     THEN FastInfoDict(ticker, stock.fast_info)
                     ELSE stock.get_info
         IN  <<stock.balance_sheet, stock.financials, stock.cashflow, info>>

fetch_financial_statements(ticker, stock) ==
    IF IsRaise(stock.balance_sheet) THEN stock.balance_sheet
    ELSE IF IsRaise(stock.financials) THEN stock.financials
    ELSE IF IsRaise(stock.cashflow) THEN stock.cashflow
    ELSE LET info == IF IsRaise(stock.get_info)
                     THEN SymbolOnly(ticker, FastInfoDict(ticker, stock.fast_info))
                     ELSE stock.get_info
         IN  <<stock.balance_sheet, stock.financials, stock.cashflow, info>>

get_stock_info_safe(ticker, stock) ==
    IF IsRaise(stock.get_info)
    THEN SymbolOnly(ticker, FastInfoDictCurrency(ticker, stock.fast_info))
    ELSE stock.get_info

(***************************************************************************)
(* finance/data_processor.py and tabs/financials_tab.py: a statement is    *)
(* formatted for display and the rows of a metric list are shown in a grid.*)
(***************************************************************************)
\* format_money(value): f"${value:,.2f}" for a number, other values unchanged
format_money(value) ==
    IF "k" \in DOMAIN value /\ IsNum(value)
    THEN LET q == RoundOf(RMul(RAbs(value), Num(100)))
         IN  Str("$" \o (IF value.n < 0 THEN "-" ELSE "")
                     \o IntComma(q \div 100) \o "." \o Pad2(q % 100))
    ELSE value

\* df.fillna("N/A")
fillna(value) == IF value = NaN THEN Str("N/A") ELSE value

\* format_dataframe(df): missing values become "N/A", numbers become money
format_dataframe(d) ==
    [d EXCEPT !.rows =
        [l \in DOMAIN d.rows |-> [i \in 1..d.ncols |-> format_money(fillna(d.rows[l][i]))]]]

\* _render_aggrid_table(df, metric_list): the rows of the metric list, without
\* those that pandas finds fully missing; a warning when nothing is left
render_aggrid_table(d, metric_list) ==
    LET subset == DOMAIN d.rows \cap metric_list
        kept == {l \in subset : \E i \in 1..d.ncols : d.rows[l][i] # NaN}
    IN  IF kept = {} \/ d.ncols = 0
        THEN [status |-> "warning"]
        ELSE [status |-> "grid", rows |-> [l \in kept |-> d.rows[l]]]

\* show_financials_tab: one statement is formatted and one metric list of it
\* is rendered
show_financials_category(d, metric_list) ==
    render_aggrid_table(format_dataframe(d), metric_list)

(***************************************************************************)
(* tabs/analysis_tab.py and the threshold keys the code looks up.          *)
(***************************************************************************)
\* show_analysis_tab(selected_ticker): the result of fetch_financial_statements
\* is unpacked into three names; a sequence of four raises ValueError before
\* any threshold is looked up
show_analysis_tab(ticker, stock) ==
    LET fetched == fetch_financial_statements(ticker, stock)
    IN  IF DOMAIN fetched = 1..3 THEN [status |-> "table"]
        ELSE IF DOMAIN fetched = 1..4 THEN Raise("ValueError")
        ELSE fetched

\* the keys show_analysis_tab subscripts ANALYSIS_THRESHOLDS with
AnalysisTabKeys ==
    {"Revenue", "GrossProfitMargin", "EBITMargin", "InterestCoverage",
     "NetIncomeMargin", "RDtoRevenueRatio", "PersonnelExpenseRatio"}

\* the keys a table builder subscripts ANALYSIS_THRESHOLDS with
BuilderKeys(builder) ==
    CASE builder = "build_income_analysis_table" ->
           {"Revenue", "RevenueGrowth", "GrossProfit", "GrossProfitGrowth",
            "GrossProfitMargin", "GrossProfitMarginGrowth", "EBIT", "EBITGrowth",
            "EBITMargin", "EBITMarginGrowth", "InterestCoverage",
            "InterestCoverageGrowth", "NetIncome", "NetIncomeGrowth",
            "NetIncomeMargin", "NetIncomeMarginGrowth", "RDtoRevenueRatio",
            "RDtoRevenueRatioGrowth", "PersonnelExpense", "PersonnelExpenseGrowth"}
      [] builder = "build_balance_analysis_table" ->
           {"CurrentAssets", "CurrentAssetsGrowth", "TotalAssets", "TotalAssetsGrowth",
            "CurrentLiabilities", "CurrentLiabilitiesGrowth", "TotalLiabilities",
            "TotalLiabilitiesGrowth", "WorkingCapital", "WorkingCapitalGrowth",
            "CurrentRatio", "CurrentRatioGrowth", "Equity", "EquityGrowth",
            "ReturnOnEquity", "ReturnOnEquityGrowth", "EquityRatio",
            "EquityRatioGrowth", "DebtRatio", "DebtRatioGrowth"}
      [] OTHER ->
           {"OperatingCashFlow", "OperatingCashFlowGrowth", "OperatingCashFlowMargin",
            "OperatingCashFlowMarginGrowth"}

(***************************************************************************)
(* main.py and the overview and valuation tabs.  st.session_state is a     *)
(* function from keys to values.  A run of the script or of a tab yields   *)
(* the session state it leaves and the page it produced: which script ran, *)
(* how it ended, the number of provider members it touched, the data it    *)
(* rendered and whether it put a Refresh button on the page.               *)
(***************************************************************************)
sessionVars == <<session_state, page>>

\* st.session_state[key] = value
Put(ss, key, value) ==
    [x \in DOMAIN ss \cup {key} |-> IF x = key THEN value ELSE ss[x]]

\* del st.session_state[key]
Del(ss, key) == [x \in DOMAIN ss \ {key} |-> ss[x]]

Page(script, status, calls, shown, refresh) ==
    [script |-> script, status |-> status, calls |-> calls, shown |-> shown,
     refresh |-> refresh]

\* no script has run in the session
NoSession == session_state = <<>> /\ page = Page("none", "none", 0, None, FALSE)

\* main.py: popular_stocks
popular_stocks ==
    [Apple |-> "AAPL", Microsoft |-> "MSFT", Google |-> "GOOGL", Amazon |-> "AMZN",
     Tesla |-> "TSLA", Meta |-> "META", NVIDIA |-> "NVDA", Netflix |-> "NFLX"]

PopularTickers == {popular_stocks[name] : name \in DOMAIN popular_stocks}

\* custom_ticker.upper() of the texts typed into the sidebar
Upper(text) ==
    CASE text = "ibm" -> "IBM"
      [] text = "aapl" -> "AAPL"
      [] OTHER -> text

\* one run of main.py up to the data fetch (lines 11-58 and 86-87)
main(ss, selected_stock, custom_ticker) ==
    LET ss1 == IF "selected_ticker" \notin DOMAIN ss
               THEN Put(ss, "selected_ticker", "AAPL") ELSE ss
        ticker == IF custom_ticker # "" THEN Upper(custom_ticker)
                  ELSE popular_stocks[selected_stock]
    IN  IF ss1.selected_ticker \notin PopularTickers
        THEN [session_state |-> ss1,
              page |-> Page("main", "ValueError", 0, None, FALSE)]
        ELSE [session_state |-> Put(ss1, "selected_ticker", ticker),
              page |-> Page("main", "fetch", 1, Str(ticker), FALSE)]

\* "selected_ticker" not in st.session_state or not st.session_state[...]
NoTicker(ss) == "selected_ticker" \notin DOMAIN ss \/ ss.selected_ticker = ""

OverviewKey(ticker) == "overview_data_" \o ticker

ValuationKey(ticker) == "valuation_data_" \o ticker

\* info.get(key, default) of the dict get_info() returned
Get(info, key, default) ==
    IF key \in DOMAIN info.items THEN info.items[key] ELSE default

\* overview_data['company_name'] is no longer the ticker after get_info()
OverviewNamed(stock) ==
    ~IsRaise(stock.get_info) /\ Get(stock.get_info, "longName", None) # None

\* show_overview_tab, lines 22-70: the data gathered from the provider
\* (industry and description are gathered like sector)
overview_data(ticker, stock) ==
    LET price == IF IsRaise(stock.get_info) THEN None
                 ELSE Get(stock.get_info, "currentPrice", None)
        priced == ~IsRaise(stock.history) /\ stock.history.close # <<>>
    IN  [ticker |-> ticker,
         company_name |->
            IF OverviewNamed(stock) THEN Get(stock.get_info, "longName", None)
            ELSE IF IsRaise(stock.info) THEN Str(ticker)
            ELSE Get(stock.info, "longName", Str(ticker)),
         sector |-> IF IsRaise(stock.get_info) THEN Str("N/A")
                    ELSE Get(stock.get_info, "sector", Str("N/A")),
         current_price |->
            IF price = None /\ priced
            THEN stock.history.close[Len(stock.history.close)]
            ELSE price,
         market_cap |-> IF IsRaise(stock.get_info) THEN None
                        ELSE Get(stock.get_info, "marketCap", None),
         history |-> IF priced THEN stock.history ELSE None]

\* the provider members show_overview_tab touches when it gathers the data:
\* get_info(), history(), and the info property when the name is still the ticker
overview_calls(stock) == IF OverviewNamed(stock) THEN 2 ELSE 3

\* the Refresh button deletes every entry of the session
render_overview_clear_all(ss, data, calls, pressed) ==
    IF pressed
    THEN [session_state |-> <<>>, page |-> Page("overview", "rerun", calls, data, FALSE)]
    ELSE [session_state |-> ss, page |-> Page("overview", "rendered", calls, data, TRUE)]

\* _render_overview(data): the page, and the Refresh button that deletes the
\* entry of data['ticker'] and reruns the script
render_overview(ss, data, calls, pressed) ==
    IF pressed
    THEN [session_state |-> Del(ss, OverviewKey(data.ticker)),
          page |-> Page("overview", "rerun", calls, data, FALSE)]
    ELSE [session_state |-> ss, page |-> Page("overview", "rendered", calls, data, TRUE)]

\* gathers the data from the provider although the entry is cached
show_overview_tab_uncached(ss, stock, pressed) ==
    IF NoTicker(ss)
    THEN [session_state |-> ss, page |-> Page("overview", "warning", 0, None, FALSE)]
    ELSE LET ticker == ss.selected_ticker
             data == overview_data(ticker, stock)
         IN  render_overview(Put(ss, OverviewKey(ticker), data), data,
                             overview_calls(stock), pressed)

show_overview_tab(ss, stock, pressed) ==
    IF NoTicker(ss)
    THEN [session_state |-> ss, page |-> Page("overview", "warning", 0, None, FALSE)]
    ELSE LET ticker == ss.selected_ticker
             data == overview_data(ticker, stock)
         IN  IF OverviewKey(ticker) \in DOMAIN ss
             THEN render_overview(ss, ss[OverviewKey(ticker)], 0, pressed)
             ELSE render_overview(Put(ss, OverviewKey(ticker), data), data,
                                  overview_calls(stock), pressed)

\* _fetch_valuation_data(ticker): the data, or None when get_info() or
\* history() raises
fetch_valuation_data(ticker, stock) ==
    IF IsRaise(stock.get_info) \/ IsRaise(stock.history) THEN None
    ELSE [ticker |-> ticker,
          company_name |-> Get(stock.get_info, "longName", Str(ticker)),
          info |-> stock.get_info,
          history |-> stock.history,
          recommendations |->
             IF IsRaise(stock.recommendations) THEN None ELSE stock.recommendations]

\* the provider members _fetch_valuation_data touches
valuation_calls(stock) ==
    IF IsRaise(stock.get_info) THEN 1 ELSE IF IsRaise(stock.history) THEN 2 ELSE 3

show_valuation_tab(ss, stock, pressed) ==
    IF NoTicker(ss)
    THEN [session_state |-> ss, page |-> Page("valuation", "warning", 0, None, FALSE)]
    ELSE LET ticker == ss.selected_ticker
             cache_key == ValuationKey(ticker)
             cached == cache_key \in DOMAIN ss
             data == IF cached THEN ss[cache_key] ELSE fetch_valuation_data(ticker, stock)
             ss1 == IF cached THEN ss ELSE Put(ss, cache_key, data)
             calls == IF cached THEN 0 ELSE valuation_calls(stock)
         IN  IF data = None
             THEN [session_state |-> ss1,
                   page |-> Page("valuation", "error", calls, None, FALSE)]
             ELSE IF pressed
             THEN [session_state |-> Del(ss1, cache_key),
                   page |-> Page("valuation", "rerun", calls, data, FALSE)]
             ELSE [session_state |-> ss1,
                   page |-> Page("valuation", "rendered", calls, data, TRUE)]

(***************************************************************************)
(* Calls of the formulas, the classifier and the accessor, with their      *)
(* arguments drawn from bounded sets.                                      *)
(***************************************************************************)
Operands == {None} \cup {Rat(i, 2) : i \in -MaxNum..MaxNum}

\* the thresholds of the configuration, and an explicit inverted = False
ThresholdSpecs ==
    {ANALYSIS_THRESHOLDS[key] : key \in DOMAIN ANALYSIS_THRESHOLDS}
        \cup {[excellent |-> Num(20), good |-> Num(5), inverted |-> FALSE]}

Cutoffs ==
    UNION {{th.excellent, th.good} : th \in ThresholdSpecs \ {None}}

\* the operands, the compound growth of two operands, and the values at and
\* next to every cutoff
ClassifyValues ==
    Operands
        \cup {compute_cagr_3y(a, b) : a, b \in Operands}
        \cup {RAdd(t, Rat(i, 2)) : t \in Cutoffs, i \in -1..1}

Cells == {NaN, Text, Num(0), Num(110), Rat(-5, 2)}

\* the values format_cell is called on: absent ones, small fractions with
\* decimal ties, amounts with several digit groups, and a cube root
FormatValues ==
    {None, NaN}
        \cup Operands
        \cup {Rat(i, 8) : i \in -MaxNum..MaxNum}
        \cup {Num(1000), Num(1234567), Rat(-2469135, 2), Rat(1999, 2), Rat(-1999, 2),
              Rat(107, 40), Rat(1, 3), Rat(-2, 3), Rat(-1, 1000)}
        \cup {compute_cagr_3y(Num(110), Num(80))}

UnitHints ==
    {"Current Assets (€)", "Revenue ($)", "Equity Ratio (%)", "%",
     "Current Ratio (#)", "Payout (€, %)", "Yield ($, %)"}

AccessorLabels == {"Total Revenue", "EBIT"}

\* the statements the accessor is called on have at most AccessorCols columns
AccessorCols == 2

\* None, and the statements of nc columns whose line items are the labels S
AccessorStatements(nc, S) ==
    {None} \cup {[ncols |-> nc, rows |-> r] : r \in [S -> [1..nc -> Cells]]}

NoBuilder ==
    /\ fn = "none"
    /\ df = None
    /\ income_df = None
    /\ edits = 0
    /\ pc = "idle"
    /\ out = None
    /\ analysis_thresholds = ANALYSIS_THRESHOLDS

builderVars == <<fn, df, income_df, edits, pc, out, analysis_thresholds>>

\* no call in progress
Idle == [fn |-> "none"]

InitFormulas ==
    /\ call = Idle
    /\ NoBuilder
    /\ NoSession

CallGrowth ==
    /\ call = Idle
    /\ \E a, b \in Operands :
         call' = [fn |-> "compute_growth_1y", a |-> a, b |-> b,
                  out |-> compute_growth_1y(a, b)]
    /\ UNCHANGED <<builderVars, sessionVars>>

CallCagr ==
    /\ call = Idle
    /\ \E a, b \in Operands :
         call' = [fn |-> "compute_cagr_3y", a |-> a, b |-> b,
                  out |-> compute_cagr_3y(a, b)]
    /\ UNCHANGED <<builderVars, sessionVars>>

CallMargin ==
    /\ call = Idle
    /\ \E a, b \in Operands :
         call' = [fn |-> "compute_margin", a |-> a, b |-> b,
                  out |-> compute_margin(a, b)]
    /\ UNCHANGED <<builderVars, sessionVars>>

CallCoverage ==
    /\ call = Idle
    /\ \E a, b \in Operands :
         call' = [fn |-> "compute_interest_coverage", a |-> a, b |-> b,
                  out |-> compute_interest_coverage(a, b)]
    /\ UNCHANGED <<builderVars, sessionVars>>

CallClassify ==
    /\ call = Idle
    /\ \E value \in ClassifyValues, thresholds \in ThresholdSpecs :
         call' = [fn |-> "classify_metric", value |-> value,
                  thresholds |-> thresholds,
                  out |-> classify_metric(value, thresholds)]
    /\ UNCHANGED <<builderVars, sessionVars>>

CallSafeVal ==
    /\ call = Idle
    /\ \E nc \in 0..AccessorCols, S \in SUBSET AccessorLabels :
         \E d \in AccessorStatements(nc, S),
            row_label \in AccessorLabels \cup {"Net Income"},
            col_label \in {NoCol} \cup 1..(AccessorCols + 1) :
           call' = [fn |-> "safe_val", df |-> d, row_label |-> row_label,
                    col_label |-> col_label,
                    out |-> safe_val(d, row_label, col_label)]
    /\ UNCHANGED <<builderVars, sessionVars>>

CallFormatCell ==
    /\ call = Idle
    /\ \E value \in FormatValues, metric_name \in UnitHints :
         call' = [fn |-> "format_cell", value |-> value, metric_name |-> metric_name,
                  out |-> format_cell(value, metric_name)]
    /\ UNCHANGED <<builderVars, sessionVars>>

Tickers == {"AAPL", "IBM"}

\* what reading an attribute of fast_info gives
AttrReads(values) == values \cup {Missing, Raise("Exception")}

\* stock.fast_info
FastInfos ==
    {Raise("Exception")}
        \cup [last_price : AttrReads({Num(190)}),
              market_cap : AttrReads({Num(3000)}),
              currency : AttrReads({Str("EUR")})]

\* stock.balance_sheet, stock.financials, stock.cashflow
ProviderFrames ==
    {[ncols |-> 0, rows |-> <<>>], [ncols |-> 4, rows |-> <<>>], Raise("Exception")}

\* yf.Ticker(ticker)
Stocks(ticker) ==
    [balance_sheet : ProviderFrames,
     financials : ProviderFrames,
     cashflow : ProviderFrames,
     get_info : {Raise("Exception"),
                 Dict([symbol |-> Str(ticker), longName |-> Str(ticker \o " Inc.")])},
     fast_info : FastInfos]

CallFetchStatements ==
    /\ call = Idle
    /\ \E ticker \in Tickers :
         \E stock \in Stocks(ticker) :
           call' = [fn |-> "fetch_financial_statements", ticker |-> ticker,
                    stock |-> stock, out |-> fetch_financial_statements(ticker, stock)]
    /\ UNCHANGED <<builderVars, sessionVars>>

CallStockInfo ==
    /\ call = Idle
    /\ \E ticker \in Tickers :
         \E stock \in Stocks(ticker) :
           call' = [fn |-> "get_stock_info_safe", ticker |-> ticker,
                    stock |-> stock, out |-> get_stock_info_safe(ticker, stock)]
    /\ UNCHANGED <<builderVars, sessionVars>>

\* the income statement the provider returned and the metric list rendered
\* (a part of INCOME_TOP_5)
CallShowFinancials ==
    /\ call = Idle
    /\ \E nc \in 0..AccessorCols, S \in SUBSET AccessorLabels :
         \E d \in AccessorStatements(nc, S) \ {None},
            metric_list \in {{"Total Revenue", "EBIT"}, {"Total Revenue", "Net Income"}} :
           call' = [fn |-> "show_financials_tab", df |-> d, metric_list |-> metric_list,
                    out |-> show_financials_category(d, metric_list)]
    /\ UNCHANGED <<builderVars, sessionVars>>

CallShowAnalysisTab ==
    /\ call = Idle
    /\ \E ticker \in Tickers :
         \E stock \in Stocks(ticker) :
           call' = [fn |-> "show_analysis_tab", ticker |-> ticker, stock |-> stock,
                    out |-> show_analysis_tab(ticker, stock)]
    /\ UNCHANGED <<builderVars, sessionVars>>

\* the call returns to its caller
Return ==
    /\ call # Idle
    /\ call' = Idle
    /\ UNCHANGED <<builderVars, sessionVars>>

NextFormulas ==
    \/ Return
    \/ CallGrowth
    \/ CallCagr
    \/ CallMargin
    \/ CallCoverage
    \/ CallClassify
    \/ CallSafeVal
    \/ CallFormatCell
    \/ CallFetchStatements
    \/ CallStockInfo
    \/ CallShowFinancials
    \/ CallShowAnalysisTab

SpecFormulas == InitFormulas /\ [][NextFormulas]_vars

(***************************************************************************)
(* Calls of the table builders.  The caller prepares the statements: the   *)
(* builder's own statement has 0 .. MaxCols columns, the income statement  *)
(* passed along has none, one, or as many; together they hold at most      *)
(* MaxRows line items, a line item holding a falling (or rising) series of *)
(* amounts in which at most MaxEdits cells are replaced by NaN or 0; then  *)
(* the builder runs.                                                       *)
(***************************************************************************)
Builders ==
    {"build_balance_analysis_table", "build_income_analysis_table",
     "build_cashflow_analysis_table"}

BalanceLabels ==
    {"Current Assets", "Total Assets", "Current Liabilities",
     "Total Liabilities Net Minority Interest", "Working Capital",
     "Common Stock Equity"}

IncomeLabels ==
    {"Total Revenue", "Gross Profit", "EBIT", "Interest Expense", "Net Income",
     "Research And Development", "Selling General And Administration"}

CashflowLabels == {"Operating Cash Flow"}

\* the line item of the income statement the balance builder ("Net Income")
\* and the cash-flow builder ("Total Revenue") read
SecondaryLabels ==
    IF fn = "build_balance_analysis_table" THEN {"Net Income"} ELSE {"Total Revenue"}

\* the amount of a line item in the newest period and its change per period
\* back, in millions (Total Revenue: 110, 100, 90, 80, ...)
Series ==
    [l \in BalanceLabels \cup IncomeLabels \cup CashflowLabels |->
        CASE l = "Total Revenue" -> <<110, 10>>
          [] l = "Gross Profit" -> <<44, 6>>
          [] l = "EBIT" -> <<22, 4>>
          [] l = "Interest Expense" -> <<4, 1>>
          [] l = "Net Income" -> <<12, 5>>
          [] l = "Research And Development" -> <<11, 1>>
          [] l = "Selling General And Administration" -> <<33, 3>>
          [] l = "Current Assets" -> <<60, 5>>
          [] l = "Total Assets" -> <<200, 10>>
          [] l = "Current Liabilities" -> <<30, -2>>
          [] l = "Total Liabilities Net Minority Interest" -> <<120, 5>>
          [] l = "Working Capital" -> <<30, 7>>
          [] l = "Common Stock Equity" -> <<80, 5>>
          [] l = "Operating Cash Flow" -> <<25, 3>>]

SeriesRow(l, ncols) ==
    [c \in 1..ncols |-> Num(Series[l][1] - Series[l][2] * (c - 1))]

SpecialCells == {NaN, Num(0)}

EmptyStatement(ncols) == [ncols |-> ncols, rows |-> [l \in {} |-> <<>>]]

WithRow(d, l, row) ==
    [d EXCEPT !.rows = [x \in DOMAIN d.rows \cup {l} |-> IF x = l THEN row ELSE d.rows[x]]]

NumRows(d) == IF d = None THEN 0 ELSE Cardinality(DOMAIN d.rows)

PrimaryLabels ==
    CASE fn = "build_balance_analysis_table" -> BalanceLabels
      [] fn = "build_income_analysis_table" -> IncomeLabels
      [] OTHER -> CashflowLabels

\* the income statement passed along covers no period, one period, or the
\* periods of the statement itself
IncomePeriods(nc) == {0, 1, nc}

InitTables ==
    /\ call = Idle
    /\ fn \in Builders
    /\ \E nc \in 0..MaxCols :
         /\ df = EmptyStatement(nc)
         /\ IF fn = "build_income_analysis_table"
            THEN income_df = None
            ELSE \E inc \in IncomePeriods(nc) : income_df = EmptyStatement(inc)
    /\ edits = 0
    /\ pc = "args"
    /\ out = None
    /\ analysis_thresholds = ANALYSIS_THRESHOLDS
    /\ NoSession

\* the statement gains a line item
AddRow ==
    /\ pc = "args"
    /\ NumRows(df) + NumRows(income_df) < MaxRows
    /\ \E l \in PrimaryLabels \ DOMAIN df.rows :
         df' = WithRow(df, l, SeriesRow(l, df.ncols))
    /\ UNCHANGED <<sessionVars, call, fn, income_df, edits, pc, out, analysis_thresholds>>

\* the income statement passed along gains a line item
AddIncomeRow ==
    /\ pc = "args"
    /\ income_df # None
    /\ NumRows(df) + NumRows(income_df) < MaxRows
    /\ \E l \in SecondaryLabels \ DOMAIN income_df.rows :
         income_df' = WithRow(income_df, l, SeriesRow(l, income_df.ncols))
    /\ UNCHANGED <<sessionVars, call, fn, df, edits, pc, out, analysis_thresholds>>

\* a cell of the statement holds NaN or 0, in one of the periods the builders
\* read (columns[0], columns[1], columns[3])
SetCell ==
    /\ pc = "args"
    /\ edits < MaxEdits
    /\ \E l \in DOMAIN df.rows, c \in {1, 2, 4} \cap (1..df.ncols), v \in SpecialCells :
         df' = [df EXCEPT !.rows[l][c] = v]
    /\ edits' = edits + 1
    /\ UNCHANGED <<sessionVars, call, fn, income_df, pc, out, analysis_thresholds>>

\* a cell of the income statement passed along holds NaN or 0, in one of the
\* periods the builders read
SetIncomeCell ==
    /\ pc = "args"
    /\ income_df # None
    /\ edits < MaxEdits
    /\ \E l \in DOMAIN income_df.rows, c \in {1, 2, 4} \cap (1..income_df.ncols),
          v \in SpecialCells :
         income_df' = [income_df EXCEPT !.rows[l][c] = v]
    /\ edits' = edits + 1
    /\ UNCHANGED <<sessionVars, call, fn, df, pc, out, analysis_thresholds>>

\* what the builder under call produces for the statements d and inc
BuilderOn(d, inc) ==
    CASE fn = "build_balance_analysis_table" -> build_balance_analysis_table(d, inc)
      [] fn = "build_income_analysis_table" -> build_income_analysis_table(d)
      [] OTHER -> build_cashflow_analysis_table(d, inc)

\* the first ncols columns of a statement
Truncate(d, ncols) ==
    [ncols |-> ncols, rows |-> [l \in DOMAIN d.rows |-> SubSeq(d.rows[l], 1, ncols)]]

\* a builder that drops the oldest column from the statement it was given
Build_dropping_column ==
    /\ pc = "args"
    /\ out' = BuilderOn(df, income_df)
    /\ df' = IF df.ncols > 2 THEN Truncate(df, df.ncols - 1) ELSE df
    /\ pc' = "done"
    /\ UNCHANGED <<sessionVars, call, fn, income_df, edits, analysis_thresholds>>

\* a classifier that stores the default into the spec: setdefault("inverted", False)
Build_setdefault ==
    /\ pc = "args"
    /\ out' = BuilderOn(df, income_df)
    /\ analysis_thresholds' =
          [analysis_thresholds EXCEPT !["Revenue"] =
              [excellent |-> @.excellent, good |-> @.good, inverted |-> FALSE]]
    /\ pc' = "done"
    /\ UNCHANGED <<sessionVars, call, fn, df, income_df, edits>>

\* the builder runs on the prepared statements; it assigns to neither of
\* them nor to ANALYSIS_THRESHOLDS
Build ==
    /\ pc = "args"
    /\ out' = BuilderOn(df, income_df)
    /\ pc' = "done"
    /\ UNCHANGED <<sessionVars, call, fn, df, income_df, edits, analysis_thresholds>>

\* the caller calls the builder once more on the statements it holds
Rebuild ==
    /\ pc = "done"
    /\ out' = BuilderOn(df, income_df)
    /\ pc' = "again"
    /\ UNCHANGED <<sessionVars, call, fn, df, income_df, edits, analysis_thresholds>>

NextTables ==
    \/ AddRow
    \/ AddIncomeRow
    \/ SetCell
    \/ SetIncomeCell
    \/ Build
    \/ Rebuild

SpecTables == InitTables /\ [][NextTables]_vars

\* one call of a builder on the prepared statements
SpecColumns ==
    InitTables /\ [][AddRow \/ AddIncomeRow \/ SetCell \/ SetIncomeCell \/ Build]_vars

(***************************************************************************)
(* The browser session: the user reruns main.py with a choice in the       *)
(* selectbox and a text in the custom ticker input, and opens the overview *)
(* and valuation tabs, pressing Refresh where the page shows the button;   *)
(* the provider answers or fails at each member a run touches.             *)
(***************************************************************************)
\* the entry of the selectbox the user leaves selected, and the texts they
\* type into the custom ticker input
Choices == {"Apple"}

CustomTexts == {"", "aapl", "ibm"}

\* stock.history(period="1y"): a frame of closing prices, possibly empty
Histories ==
    {Raise("Exception"), [k |-> "frame", close |-> <<>>],
     [k |-> "frame", close |-> <<Num(189)>>]}

\* yf.Ticker(ticker) as show_overview_tab uses it
OverviewStocks(ticker) ==
    [get_info : {Raise("Exception"),
                 Dict([longName |-> Str(ticker \o " Inc."), sector |-> Str("Technology"),
                       currentPrice |-> Num(190), marketCap |-> Num(3000)])},
     history : Histories,
     info : {Raise("Exception"), Dict([longName |-> Str(ticker \o " Inc.")])}]

\* yf.Ticker(ticker) as _fetch_valuation_data uses it
ValuationStocks(ticker) ==
    [get_info : {Raise("Exception"), Dict([longName |-> Str(ticker \o " Inc.")])},
     history : {Raise("Exception"), [k |-> "frame", close |-> <<Num(189)>>]},
     recommendations : {Raise("Exception"), [k |-> "frame", close |-> <<>>]}]

\* the ticker a tab renders, "" when the session has none
SelectedTicker == IF NoTicker(session_state) THEN "" ELSE session_state.selected_ticker

InitSession ==
    /\ call = Idle
    /\ NoBuilder
    /\ NoSession

\* a run of main.py; the first run of a session has the widgets' defaults
RunMain ==
    /\ \E selected_stock \in Choices, custom_ticker \in CustomTexts :
         /\ "selected_ticker" \notin DOMAIN session_state
               => selected_stock = "Apple" /\ custom_ticker = ""
         /\ LET run == main(session_state, selected_stock, custom_ticker)
            IN  session_state' = run.session_state /\ page' = run.page
    /\ UNCHANGED <<call, builderVars>>

\* a run of show_overview_tab; Refresh can be pressed when the page shows it
ShowOverview ==
    /\ \E stock \in OverviewStocks(SelectedTicker), pressed \in BOOLEAN :
         /\ pressed => page.script = "overview" /\ page.refresh
         /\ LET run == show_overview_tab(session_state, stock, pressed)
            IN  session_state' = run.session_state /\ page' = run.page
    /\ UNCHANGED <<call, builderVars>>

\* a run of show_valuation_tab
ShowValuation ==
    /\ \E stock \in ValuationStocks(SelectedTicker), pressed \in BOOLEAN :
         /\ pressed => page.script = "valuation" /\ page.refresh
         /\ LET run == show_valuation_tab(session_state, stock, pressed)
            IN  session_state' = run.session_state /\ page' = run.page
    /\ UNCHANGED <<call, builderVars>>

NextSession ==
    \/ RunMain
    \/ ShowOverview
    \/ ShowValuation

SpecSession == InitSession /\ [][NextSession]_vars

(***************************************************************************)
(* Properties of the formulas, the classifier and the accessor.            *)
(***************************************************************************)
IsCall(f) == call.fn = f

ExplicitlyInverted(th) == "inverted" \in DOMAIN th /\ th.inverted

\* C2: classify_metric returns "gray" whenever the value is None or the
\* thresholds are None, whatever the other argument is, and does not raise.
C2_GrayWhenAbsent ==
    (IsCall("classify_metric") /\ (call.value = None \/ call.thresholds = None))
        => call.out = "gray"

NoStoredNumber(d, row_label, col_label) ==
    \/ d = None
    \/ IsEmpty(d)
    \/ col_label = NoCol
    \/ row_label \notin DOMAIN d.rows
    \/ col_label \notin 1..d.ncols
    \/ d.rows[row_label][col_label] \in {NaN, Text}

\* C5: safe_val never raises; it returns None when the statement is None or
\* empty, the column reference is None, the row or the column is not in the
\* statement, or the stored value is NaN or not numeric; otherwise it returns
\* exactly the stored number.
C5_SafeVal ==
    IsCall("safe_val") =>
        IF NoStoredNumber(call.df, call.row_label, call.col_label)
        THEN call.out = None
        ELSE /\ call.out = call.df.rows[call.row_label][call.col_label]
             /\ IsNum(call.out)

\* safe_val was asked for an existing cell that holds NaN and returned None
C5_Witness ==
    /\ IsCall("safe_val")
    /\ call.df # None
    /\ call.row_label \in DOMAIN call.df.rows
    /\ call.col_label \in 1..call.df.ncols
    /\ call.df.rows[call.row_label][call.col_label] = NaN
    /\ call.out = None

Sign(v) == IF v.n > 0 THEN 1 ELSE IF v.n < 0 THEN -1 ELSE 0

\* C6: compute_growth_1y(now, prior) is None exactly when now is None, prior
\* is None or prior == 0; otherwise it is ((now - prior) / |prior|) * 100, with
\* the sign of now - prior.
C6_Growth1y ==
    IsCall("compute_growth_1y") =>
        IF call.a = None \/ call.b = None \/ IsZero(call.b)
        THEN call.out = None
        ELSE /\ IsNum(call.out)
             /\ RMul(call.out, RAbs(call.b)) = RMul(RSub(call.a, call.b), Num(100))
             /\ Sign(call.out) = Sign(RSub(call.a, call.b))

\* growth from a negative prior value to a larger value is positive
C6_Witness ==
    /\ IsCall("compute_growth_1y")
    /\ call.a # None
    /\ call.b # None
    /\ call.b.n < 0
    /\ RLt(call.b, call.a)
    /\ call.out # None
    /\ call.out.n > 0

C10_Margin ==
    IsCall("compute_margin") =>
        IF call.a = None \/ call.b = None \/ IsZero(call.b)
        THEN call.out = None
        ELSE /\ IsNum(call.out)
             /\ RMul(call.out, RAbs(call.b)) = RMul(call.a, Num(100))
             /\ Sign(call.out) = Sign(call.a)
             /\ IsZero(call.a) => call.out = Num(0)

\* the margin of a numerator 0 over a negative denominator is the number 0
C10_Witness ==
    /\ IsCall("compute_margin")
    /\ call.a = Num(0)
    /\ call.b # None
    /\ call.b.n < 0
    /\ call.out = Num(0)

\* C11: compute_interest_coverage(a, b) is None exactly when
\* compute_margin(a, b) is None, and when present
\* compute_margin(a, b) == 100 * compute_interest_coverage(a, b).
C11_CoverageVsMargin ==
    IsCall("compute_interest_coverage") =>
        LET margin == compute_margin(call.a, call.b)
        IN  /\ call.out = None <=> margin = None
            /\ call.out # None => margin = RMul(Num(100), call.out)

\* a coverage of non-zero operands was computed, a hundredth of the margin
C11_Witness ==
    /\ IsCall("compute_interest_coverage")
    /\ call.a # None
    /\ call.b # None
    /\ ~IsZero(call.a)
    /\ call.b.n < 0
    /\ call.out # None
    /\ compute_margin(call.a, call.b) = RMul(Num(100), call.out)

\* the currency marker format_cell appends for a hint that contains one
CurrencyOf(metric_name) == IF Contains("€", metric_name) THEN "€" ELSE "$"

HasCurrency(metric_name) == Contains("€", metric_name) \/ Contains("$", metric_name)

\* the integers next to a number: its floor and the integer above
Neighbours(value) == {value.n \div value.d, (value.n \div value.d) + 1}

\* C19: format_cell returns "n/a" for an absent value (None or NaN) whatever
\* the unit hint; for a present value, a hint with a currency marker gives a
\* thousands-separated integer with that currency suffix, otherwise a hint
\* with "%" gives the 2-decimal string ending in "%", otherwise the 2-decimal
\* plain number.
C19_FormatCell ==
    IsCall("format_cell") =>
        IF call.value \in {None, NaN} THEN call.out = Str("n/a")
        ELSE IF HasCurrency(call.metric_name)
        THEN IF IsNum(call.value)
             THEN \E i \in Neighbours(call.value) :
                    call.out = Str(IntComma(i) \o CurrencyOf(call.metric_name))
             ELSE call.out = [int |-> call.value, suffix |-> CurrencyOf(call.metric_name)]
        ELSE IF Contains("%", call.metric_name)
        THEN call.out = Fixed2Str(call.value, "%")
        ELSE call.out = Fixed2Str(call.value, "")

\* an amount of several digit groups was formatted under a hint that holds a
\* currency marker and "%"
C19_Witness ==
    /\ IsCall("format_cell")
    /\ call.value = Num(1234567)
    /\ call.metric_name = "Payout (€, %)"
    /\ call.out = Str("1,234,567€")

\* C20: for a present value and a currency unit hint, format_cell displays the
\* value rounded to the nearest integer, for positive and negative values.
C20_CurrencyRounded ==
    (IsCall("format_cell") /\ IsNum(call.value) /\ HasCurrency(call.metric_name))
        => \E i \in Neighbours(call.value) :
             /\ RLe(RAbs(RSub(Num(i), call.value)), Rat(1, 2))
             /\ call.out = Str(IntComma(i) \o CurrencyOf(call.metric_name))

\* the provider members a call touched before get_info all returned
StatementsRead ==
    /\ ~IsRaise(call.stock.balance_sheet)
    /\ ~IsRaise(call.stock.financials)
    /\ ~IsRaise(call.stock.cashflow)

\* the info part of what the call under way returned
InfoOut == IF call.fn = "fetch_financial_statements" THEN call.out[4] ELSE call.out

\* reading the attributes the fallback of the call under way reads raises
FastInfoRaises ==
    \/ IsRaise(call.stock.fast_info)
    \/ IsRaise(call.stock.fast_info.last_price)
    \/ IsRaise(call.stock.fast_info.market_cap)
    \/ (call.fn = "get_stock_info_safe" /\ IsRaise(call.stock.fast_info.currency))

\* C23: fetch_financial_statements and get_stock_info_safe never propagate a
\* failure of get_info: when get_info raises, info is a dictionary built from
\* fast_info, and {'symbol': ticker} when reading fast_info raises as well; in
\* every case info is a dictionary, and fetch_financial_statements, once the
\* three statements are read, returns the 4-tuple (balance_sheet, income_stmt,
\* cash_flow, info).
C23_InfoNeverRaises ==
    /\ (IsCall("fetch_financial_statements") /\ StatementsRead)
          => /\ DOMAIN call.out = 1..4
             /\ call.out[1] = call.stock.balance_sheet
             /\ call.out[2] = call.stock.financials
             /\ call.out[3] = call.stock.cashflow
    /\ ((IsCall("fetch_financial_statements") /\ StatementsRead)
           \/ IsCall("get_stock_info_safe"))
          => /\ InfoOut.k = "dict"
             /\ ~IsRaise(call.stock.get_info) => InfoOut = call.stock.get_info
             /\ (IsRaise(call.stock.get_info) /\ FastInfoRaises)
                   => InfoOut = Dict([symbol |-> Str(call.ticker)])
             /\ (IsRaise(call.stock.get_info) /\ ~FastInfoRaises)
                   => /\ InfoOut.items.symbol = Str(call.ticker)
                      /\ InfoOut.items.currentPrice
                            = GetAttr(call.stock.fast_info, "last_price", None)
                      /\ InfoOut.items.marketCap
                            = GetAttr(call.stock.fast_info, "market_cap", None)

\* get_info raised and reading fast_info raised as well: the statements came
\* back with the one-entry dictionary
C23_Witness ==
    /\ IsCall("fetch_financial_statements")
    /\ StatementsRead
    /\ IsRaise(call.stock.get_info)
    /\ FastInfoRaises
    /\ call.out[4] = Dict([symbol |-> Str("IBM")])

\* C21: compute_cagr_3y returns None if any of its two operands is None or
\* zero: also when value_now is 0, not only when value_3yr is 0.
C21_CagrNoneOnZero ==
    (/\ IsCall("compute_cagr_3y")
     /\ (call.a = None \/ IsZero(call.a) \/ call.b = None \/ IsZero(call.b)))
        => call.out = None

\* the requested rows of the statement that hold a value in some period
RowsWithData ==
    {l \in DOMAIN call.df.rows \cap call.metric_list :
        \E i \in 1..call.df.ncols : call.df.rows[l][i] # NaN}

\* C28: in the financials tab, _render_aggrid_table drops every requested
\* metric row whose period values are all missing, so no displayed row consists
\* only of missing values, and it shows the "No valid data for these metrics."
\* warning instead of a grid when no row with data remains.
C28_NoAllMissingRow ==
    IsCall("show_financials_tab")
        => IF RowsWithData = {}
           THEN call.out.status = "warning"
           ELSE /\ call.out.status = "grid"
                /\ DOMAIN call.out.rows = RowsWithData

\* C29: every threshold key that a table builder or a tab looks up in
\* ANALYSIS_THRESHOLDS, for a metric's value and for its "*Growth" figures, is
\* a key of that mapping (mapped to a threshold spec or to None), so that no
\* threshold lookup fails.
C29_ThresholdKeysExist ==
    \A key \in AnalysisTabKeys \cup UNION {BuilderKeys(builder) : builder \in Builders} :
        key \in DOMAIN analysis_thresholds

(***************************************************************************)
(* Properties of the table builders.                                       *)
(***************************************************************************)
Done == pc = "done"

\* the builder's statements all have at least 2 columns
AllTwoColumns == df.ncols >= 2 /\ (income_df = None \/ income_df.ncols >= 2)

AbsentIsGray(row) ==
    /\ row.LatestValue = None => row.Color = "gray"
    /\ row.Growth1Y = None => row.Color1Y = "gray"
    /\ row.Cagr3Y = None => row.Color3Y = "gray"

\* C1: for statements with at least 2 columns, whatever rows are missing and
\* whatever cells are NaN, a table builder completes without raising, and every
\* value that cannot be computed is absent and classified "gray".
C1_BuildersNeverRaise ==
    (Done /\ AllTwoColumns)
        => /\ out.status = "ok"
           /\ \A i \in 1..Len(out.rows) : AbsentIsGray(out.rows[i])

\* the number stored for a line item in a column, None when there is none
StoredNumber(d, l, c) ==
    IF l \in DOMAIN d.rows /\ c \in 1..d.ncols /\ IsNum(d.rows[l][c])
    THEN d.rows[l][c]
    ELSE None

\* the metrics a builder looks up directly by row label: <<metric, row label>>
DirectMetrics ==
    CASE fn = "build_balance_analysis_table" ->
           {<<"Current Assets (€)", "Current Assets">>,
            <<"Total Assets (€)", "Total Assets">>,
            <<"Current Liabilities (€)", "Current Liabilities">>,
            <<"Total Liabilities (€)", "Total Liabilities Net Minority Interest">>,
            <<"Working Capital (€)", "Working Capital">>,
            <<"Equity (€)", "Common Stock Equity">>}
      [] fn = "build_income_analysis_table" ->
           {<<"Revenue ($)", "Total Revenue">>,
            <<"Gross-Profit ($)", "Gross Profit">>,
            <<"EBIT ($)", "EBIT">>,
            <<"Net Income ($)", "Net Income">>}
      [] OTHER -> {<<"Operating Cashflow (€)", "Operating Cash Flow">>}

RowsOf(metric) == {i \in 1..Len(out.rows) : out.rows[i].Metric = metric}

C12_TooFewColumns ==
    (Done /\ df.ncols < 2)
        => /\ out.status = "warning"
           /\ "rows" \notin DOMAIN out
           /\ "display" \notin DOMAIN out

\* a builder was called on a one-column statement with a line item and warned
C12_Witness ==
    /\ Done
    /\ df.ncols = 1
    /\ DOMAIN df.rows # {}
    /\ out.status = "warning"

\* C13: for a statement with exactly 2 or 3 columns the builder does not fail
\* on the missing column 3 (no IndexError or KeyError, the income statement
\* passed along having a column): every row's 3Y CAGR is absent, and every row's 1Y
\* growth is what columns 0 and 1 give with 4 or more columns (a statement
\* of 4 or more columns cut down to 2 or 3 keeps each row's latest value and
\* 1Y growth).
C13_ShortStatement ==
    /\ (Done /\ df.ncols \in {2, 3})
          => /\ (income_df = None \/ income_df.ncols >= 1)
                   => (out.status # "raised" \/ out.exc \notin {"IndexError", "KeyError"})
             /\ out.status = "ok" =>
                  /\ \A i \in 1..Len(out.rows) : out.rows[i].Cagr3Y = None
                  /\ \A dm \in DirectMetrics : \A i \in RowsOf(dm[1]) :
                       out.rows[i].Growth1Y =
                           compute_growth_1y(StoredNumber(df, dm[2], 1),
                                             StoredNumber(df, dm[2], 2))
    /\ (Done /\ df.ncols >= 4 /\ out.status = "ok")
          => \A nc \in {2, 3} :
               LET short == BuilderOn(Truncate(df, nc), income_df)
               IN  /\ short.status = "ok"
                   /\ \A i \in 1..Len(out.rows) :
                        /\ short.rows[i].Metric = out.rows[i].Metric
                        /\ short.rows[i].LatestValue = out.rows[i].LatestValue
                        /\ short.rows[i].Growth1Y = out.rows[i].Growth1Y
                        /\ short.rows[i].Cagr3Y = None

\* a 3-column statement gave a row with a 1Y growth and no 3Y CAGR
C13_Witness ==
    /\ Done
    /\ df.ncols = 3
    /\ out.status = "ok"
    /\ \E i \in 1..Len(out.rows) :
         /\ out.rows[i].Growth1Y # None
         /\ out.rows[i].Cagr3Y = None

\* C14: when "Current Liabilities" is 0 in the latest column of the balance
\* sheet, the Current Ratio row has an absent Latest Value, its Color is
\* "gray" and its formatted Latest Value is "n/a".
C14_ZeroCurrentLiabilities ==
    (/\ Done
     /\ fn = "build_balance_analysis_table"
     /\ df.ncols >= 2
     /\ StoredNumber(df, "Current Liabilities", 1) = Num(0))
        => /\ out.status = "ok"
           /\ RowsOf("Current Ratio (#)") # {}
           /\ \A i \in RowsOf("Current Ratio (#)") :
                /\ out.rows[i].LatestValue = None
                /\ out.rows[i].Color = "gray"
                /\ out.display[i].LatestValue = Str("n/a")

\* the ratios a builder computes from two line items: the Metric, and the
\* statement and row label of the numerator and of the denominator
RatioMetrics ==
    CASE fn = "build_balance_analysis_table" ->
           {<<"Current Ratio (#)", "df", "Current Assets", "df", "Current Liabilities">>,
            <<"Equity Ratio (%)", "df", "Common Stock Equity", "df", "Total Assets">>,
            <<"Dept Ratio (Gearing) (%)", "df",
              "Total Liabilities Net Minority Interest", "df", "Common Stock Equity">>,
            <<"Return on Equity (%)", "income_df", "Net Income",
              "df", "Common Stock Equity">>}
      [] fn = "build_cashflow_analysis_table" ->
           {<<"Operating Cashflow Margin (%)", "df", "Operating Cash Flow",
              "income_df", "Total Revenue">>}
      [] OTHER -> {}

StatementNamed(name) == IF name = "df" THEN df ELSE income_df

\* C15: in the ratios of the balance and cash-flow builders absence is not
\* confused with zero: a numerator that is present and 0 over a denominator
\* that is present and not 0, both in the latest column, yields the row's
\* Latest Value 0, not an absent one.
C15_ZeroIsNotAbsent ==
    (Done /\ AllTwoColumns)
        => \A rm \in RatioMetrics :
             LET a == StoredNumber(StatementNamed(rm[2]), rm[3], 1)
                 b == StoredNumber(StatementNamed(rm[4]), rm[5], 1)
             IN  (a = Num(0) /\ b # None /\ ~IsZero(b))
                    => /\ out.status = "ok"
                       /\ \A i \in RowsOf(rm[1]) : out.rows[i].LatestValue = Num(0)

\* the "*Growth" threshold key of the rows of the income builder
IncomeGrowthKey(metric) ==
    CASE metric = "Revenue ($)" -> "RevenueGrowth"
      [] metric = "Gross-Profit ($)" -> "GrossProfitGrowth"
      [] metric = "Gross-Profit-Margin (%)" -> "GrossProfitMarginGrowth"
      [] metric = "EBIT ($)" -> "EBITGrowth"
      [] metric = "EBIT Margin (%)" -> "EBITMarginGrowth"
      [] metric = "Interest coverage ratio (#)" -> "InterestCoverageGrowth"
      [] metric = "Net Income ($)" -> "NetIncomeGrowth"
      [] metric = "Net Income Margin (%)" -> "NetIncomeMarginGrowth"
      [] metric = "R&D to Revenue Ratio (%)" -> "RDtoRevenueRatioGrowth"
      [] metric = "Personell Expense (%)" -> "PersonnelExpenseGrowth"

\* the income statement holds no line item whose own row has no thresholds,
\* and no latest value of a ratio's numerator: every ratio and every growth
\* figure of a ratio is absent, and "Total Revenue" is the only value classified
OnlyRevenueClassified ==
    /\ DOMAIN df.rows \subseteq
          {"Total Revenue", "Research And Development",
           "Selling General And Administration", "Interest Expense"}
    /\ \A l \in DOMAIN df.rows \ {"Total Revenue"} : StoredNumber(df, l, 1) = None

\* C16: in every row of a builder, "Color 1Y" is the classification of the
\* row's 1Y growth and "Color 3Y" that of its 3Y CAGR, each against the
\* metric's "*Growth" key; stated for the income statements in which every
\* growth figure but that of the revenue is absent, where these
\* classifications are "gray" or made against the thresholds of RevenueGrowth.
C16_GrowthColours ==
    (Done /\ fn = "build_income_analysis_table" /\ df.ncols >= 2 /\ OnlyRevenueClassified)
        => /\ out.status = "ok"
           /\ \A i \in 1..Len(out.rows) :
                LET row == out.rows[i]
                IN  /\ row.Color1Y = Classify(row.Growth1Y, IncomeGrowthKey(row.Metric))
                    /\ row.Color3Y = Classify(row.Cagr3Y, IncomeGrowthKey(row.Metric))

C18_InputsUnchanged ==
    [][((pc = "args" /\ pc' = "done") \/ (pc = "done" /\ pc' = "again"))
          => /\ df' = df
             /\ income_df' = income_df
             /\ analysis_thresholds' = analysis_thresholds]_vars

\* a builder returned rows computed with a classification against thresholds
\* and the configuration is the one loaded
C18_Witness ==
    /\ Done
    /\ out.status = "ok"
    /\ \E i \in 1..Len(out.rows) : out.rows[i].Color \in {"green", "yellow", "red"}
    /\ analysis_thresholds = ANALYSIS_THRESHOLDS

\* the "Metrics displayed" of build_balance_analysis_table's docstring, under
\* the labels the rows carry
BalanceDocstringMetrics ==
    <<"Current Assets (€)", "Total Assets (€)", "Current Liabilities (€)",
      "Total Liabilities (€)", "Working Capital (€)", "Current Ratio (#)",
      "Equity (€)", "Equity Ratio (%)", "Dept Ratio (Gearing) (%)",
      "Dividendes (€)", "Dividendes to share (%)">>

\* C22: for a balance sheet with at least 2 columns, a completed
\* build_balance_analysis_table has exactly one row for each metric its
\* docstring lists, in that order, the last two being Dividends and Dividends
\* to share, and no other row.
C22_BalanceRowsAsDocumented ==
    (Done /\ fn = "build_balance_analysis_table" /\ df.ncols >= 2 /\ out.status = "ok")
        => [i \in 1..Len(out.rows) |-> out.rows[i].Metric] = BalanceDocstringMetrics

\* what a period column outside indices 0, 1 and 3 is overwritten with
OtherCells == {NaN, Num(-7)}

\* the statement with column 2 and the columns after index 3 overwritten by c
Overwritten(d, c) ==
    IF d = None THEN None
    ELSE [d EXCEPT !.rows =
            [l \in DOMAIN d.rows |->
                [i \in 1..d.ncols |->
                    IF i = ColAt(d, 2) \/ i > ColAt(d, 3) THEN c ELSE d.rows[l][i]]]]

\* C30: the outcome of a table builder depends only on statement columns 0, 1
\* and 3: a statement (and income statement) that differs only in the values
\* of column 2 or of the columns after index 3 yields identical rows, values
\* and classifications.
C30_OnlyColumns013 ==
    Done => \A c \in OtherCells :
                BuilderOn(Overwritten(df, c), Overwritten(income_df, c)) = out

\* a builder returned rows with a 3Y CAGR from a statement of 5 columns whose
\* columns 2 and 4 hold amounts
C30_Witness ==
    /\ Done
    /\ df.ncols = 5
    /\ out.status = "ok"
    /\ \E l \in DOMAIN df.rows : IsNum(df.rows[l][3]) /\ IsNum(df.rows[l][5])
    /\ \E i \in 1..Len(out.rows) : out.rows[i].Cagr3Y # None

(***************************************************************************)
(* Properties of the browser session.                                      *)
(***************************************************************************)
\* C24: across any sequence of reruns of main.py, with any selection and any
\* custom ticker text entered in earlier runs, session_state["selected_ticker"]
\* is one of the popular tickers at the start of every run, so the selectbox
\* default-index lookup never fails and the run reaches the data fetch.
C24_SelectedTickerPopular ==
    /\ "selected_ticker" \in DOMAIN session_state
          => session_state.selected_ticker \in PopularTickers
    /\ page.script = "main" => page.status = "fetch"

\* C25: whenever show_valuation_tab has rendered and a cache entry
\* "valuation_data_<ticker>" exists for the selected ticker, including one that
\* holds the result of a failed fetch, the page offers the Refresh control (with
\* which the entry can be deleted and the fetch retried).
C25_RefreshOffered ==
    (/\ page.script = "valuation"
     /\ ~NoTicker(session_state)
     /\ ValuationKey(SelectedTicker) \in DOMAIN session_state)
        => page.refresh

\* C26: while session_state holds "overview_data_<ticker>" for the selected
\* ticker, show_overview_tab renders from the cached data and makes no provider
\* call; the provider is called only in a render where that key is absent, and
\* every such render that completes stores the key with the data it rendered,
\* whether or not the provider calls succeeded.
C26_OverviewCache ==
    [][(page'.script = "overview" /\ ~NoTicker(session_state))
          => LET key == OverviewKey(SelectedTicker)
             IN  /\ key \in DOMAIN session_state
                       => page'.calls = 0 /\ page'.shown = session_state[key]
                 /\ page'.calls > 0 => key \notin DOMAIN session_state
                 /\ (key \notin DOMAIN session_state /\ page'.status = "rendered")
                       => /\ page'.calls > 0
                          /\ key \in DOMAIN session_state'
                          /\ session_state'[key] = page'.shown]_vars

\* the overview was rendered without a provider call from an entry that was
\* stored when get_info() and the info property had failed
C26_Witness ==
    /\ page.script = "overview"
    /\ page.status = "rendered"
    /\ page.calls = 0
    /\ page.shown.ticker = "IBM"
    /\ page.shown.company_name = Str("IBM")
    /\ page.shown = session_state[OverviewKey("IBM")]

\* C27: pressing Refresh in the overview removes only the cache entry of the
\* ticker being rendered: session_state["selected_ticker"], the overview
\* entries of every other ticker and every valuation entry are unchanged; and
\* a render of a ticker whose entry is absent fetches again.
C27_RefreshFrame ==
    [][(page'.script = "overview" /\ ~NoTicker(session_state))
          => LET key == OverviewKey(SelectedTicker)
             IN  /\ page'.status = "rerun"
                       => /\ key \notin DOMAIN session_state'
                          /\ DOMAIN session_state' = DOMAIN session_state \ {key}
                          /\ \A x \in DOMAIN session_state' :
                                session_state'[x] = session_state[x]
                 /\ key \notin DOMAIN session_state => page'.calls > 0]_vars

\* Refresh was pressed on the overview of IBM while the session held the
\* overview entry of AAPL and the valuation entry of IBM
C27_Witness ==
    /\ page.script = "overview"
    /\ page.status = "rerun"
    /\ session_state.selected_ticker = "IBM"
    /\ OverviewKey("IBM") \notin DOMAIN session_state
    /\ OverviewKey("AAPL") \in DOMAIN session_state
    /\ ValuationKey("IBM") \in DOMAIN session_state

====
